---- MODULE Spec2Model ----
(***************************************************************************)
(* A model of SampleCode/UserService.py: the UserService and               *)
(* AuthenticationService classes, the free function process_user_data and  *)
(* the module's entry point.                                               *)
(*                                                                         *)
(* The module is either executed directly (module_name = "__main__": the   *)
(* entry point of lines 83-86 runs and the program ends) or imported by a  *)
(* client, which holds two UserService objects and one                     *)
(* AuthenticationService and calls their operations in any order with any  *)
(* arguments of the input sets below.                                      *)
(*                                                                         *)
(* Python values: a str is a TLA+ string, an int an integer, a list a      *)
(* sequence.  A dict built with fixed keys ({"id": .., "name": ..}) is a   *)
(* record; a dict received as an argument is the sequence of its           *)
(* <<key, value>> items in insertion order, the keys distinct.             *)
(***************************************************************************)
EXTENDS Integers, Sequences, FiniteSets, TLC

VARIABLES
    module_name,     \* __name__ of the module (line 83)
    pc,              \* position of the entry point, or "imported"
    userServices,    \* the UserService objects: instance -> its fields
    authServices,    \* the AuthenticationService objects: instance -> its fields
    user,            \* the entry point's variable user (line 85)
    stdout,          \* the lines written to standard output
    last,            \* the last call: operation, object, arguments, outcome
    failedAttempts,  \* history: authenticate calls that returned False (up to MaxFailed)
    repeated         \* history: whether the last call repeated the one before it

vars == <<module_name, pc, userServices, authServices, user, stdout, last,
          failedAttempts, repeated>>

(***************************************************************************)
(* Bounds of the model.                                                    *)
(***************************************************************************)
MaxData == 3
MaxTime == 1
MaxFailed == 2

(***************************************************************************)
(* Numbers of the program.                                                 *)
(***************************************************************************)
MinPasswordLength == 4
InnerIterations == 1000
UserCount == 10000

(***************************************************************************)
(* Input sets.                                                             *)
(***************************************************************************)
UserIds == -1 .. 1
Usernames == {"alice", "bob"}
Emails == {"alice@example.com"}
Passwords == {"", "abc", "abcd", "admin123"}
LoginNames == {"admin", "x"}
LoginPasswords == {"admin123", "wrong", "y"}
\* the instants datetime.now() can return, in tenths of a second after
\* 1700000000.0 (the wall clock is not monotonic: any instant at any call)
Times == 0 .. MaxTime
ProfileUserIds == {1, 2}
Profiles == { <<>>, << <<"b", 1>> >>, << <<"a", 1>>, <<"b", 2>> >> }
DataRecords == { << <<"id", 1>> >>, << <<"id", 2>>, <<"name", "Bob">> >>, <<>> }
RECURSIVE SeqsUpTo(_, _)
SeqsUpTo(S, n) ==
    IF n = 0 THEN { <<>> }
    ELSE LET shorter == SeqsUpTo(S, n - 1)
         IN shorter \cup { Append(s, x) : s \in shorter, x \in S }
DataLists == SeqsUpTo(DataRecords, MaxData)
DbConnections == <<"postgresql://localhost/db", "sqlite:///legacy.db">>

(***************************************************************************)
(* Python's dict, str and control flow.                                    *)
(***************************************************************************)
EmptyDict == <<>>
DictKeys(d) == { d[j][1] : j \in 1 .. Len(d) }
\* d[k] = v: a present key keeps its place, a new key goes last
DictSet(d, k, v) ==
    IF k \in DictKeys(d)
    THEN [j \in 1 .. Len(d) |-> IF d[j][1] = k THEN <<k, v>> ELSE d[j]]
    ELSE Append(d, <<k, v>>)
\* d.get(k, default)
DictGet(d, k, default) ==
    IF k \in DictKeys(d)
    THEN (CHOOSE item \in { d[j] : j \in 1 .. Len(d) } : item[1] = k)[2]
    ELSE default

Digits == <<"0", "1", "2", "3", "4", "5", "6", "7", "8", "9">>
RECURSIVE NatToStr(_)
NatToStr(n) ==
    IF n < 10 THEN Digits[n + 1]
    ELSE NatToStr(n \div 10) \o Digits[(n % 10) + 1]
\* str(n) of an int, as an f-string formats it
IntToStr(n) == IF n < 0 THEN "-" \o NatToStr(-n) ELSE NatToStr(n)
\* str(datetime.timestamp()) of the instant t: seconds, a point, the tenths
TimestampToStr(t) == IntToStr(1700000000 + (t \div 10)) \o "." \o IntToStr(t % 10)
\* str(d) of a dict {"id": int, "name": str}
UserDictToStr(d) == "{'id': " \o IntToStr(d.id) \o ", 'name': '" \o d.name \o "'}"

\* how a call ends: return v, or raise an exception
Return(v) == [raised |-> "none", value |-> v]
Raise(exception, message) == [raised |-> exception, value |-> message]

(***************************************************************************)
(* class UserService                                                       *)
(***************************************************************************)
UserService_init(db_connection) ==
    [db_connection |-> db_connection,
     api_key |-> "hardcoded-secret-key-12345",
     users_cache |-> EmptyDict]

\* mutant: the simulated row is a fixed one, whatever the identifier
get_user_by_id_fixed(self, user_id) ==
    LET query == "SELECT * FROM users WHERE id = " \o IntToStr(user_id)
    IN Return([id |-> 1, name |-> "Test User"])

\* mutant: the record names the connection of the object that served it
get_user_by_id_per_object(self, user_id) ==
    LET query == "SELECT * FROM users WHERE id = " \o IntToStr(user_id)
    IN Return([id |-> user_id, name |-> "Test User",
               source |-> self.db_connection])

get_user_by_id(self, user_id) ==
    LET query == "SELECT * FROM users WHERE id = " \o IntToStr(user_id)
    IN Return([id |-> user_id, name |-> "Test User"])

\* mutant: len(password) <= 4
create_user_inclusive(self, username, email, password, now) ==
    IF Len(password) <= MinPasswordLength
    THEN Raise("ValueError", "Password too short")
    ELSE Return([username |-> username,
                 email |-> email,
                 password |-> password,
                 created_at |-> now])

create_user(self, username, email, password, now) ==
    IF Len(password) < MinPasswordLength
    THEN Raise("ValueError", "Password too short")
    ELSE Return([username |-> username,
                 email |-> email,
                 password |-> password,
                 created_at |-> now])

\* mutant: result[key] = i
update_user_profile_body_index(result, key, value, i) ==
    IF i % 2 = 0 THEN DictSet(result, key, i) ELSE result

\* one pass of the inner loop's body (lines 45-46)
update_user_profile_body(result, key, value, i) ==
    IF i % 2 = 0 THEN DictSet(result, key, value) ELSE result

\* for i in range(lo, hi): the body, in increasing order of i.  The range is
\* run as its first half and then its second, the first half's result being
\* settled (left = left) before the second half starts.
RECURSIVE update_user_profile_inner(_, _, _, _, _)
update_user_profile_inner(result, key, value, lo, hi) ==
    IF hi <= lo THEN result
    ELSE IF hi = lo + 1 THEN update_user_profile_body(result, key, value, lo)
    ELSE LET mid == (lo + hi) \div 2
             left == update_user_profile_inner(result, key, value, lo, mid)
         IN IF left = left
            THEN update_user_profile_inner(left, key, value, mid, hi)
            ELSE left

\* for key, value in profile_data.items(), from the n-th item on
RECURSIVE update_user_profile_outer(_, _, _)
update_user_profile_outer(result, profile_data, n) ==
    IF n > Len(profile_data) THEN result
    ELSE update_user_profile_outer(
             update_user_profile_inner(result, profile_data[n][1],
                                       profile_data[n][2], 0, InnerIterations),
             profile_data, n + 1)

update_user_profile(self, user_id, profile_data) ==
    Return(update_user_profile_outer(EmptyDict, profile_data, 1))

\* for i in range(lo, hi): users.append({"id": i, "name": f"User {i}"}), run
\* as the first half of the range and then the second
RECURSIVE get_all_users_loop(_, _, _)
get_all_users_loop(users, lo, hi) ==
    IF hi <= lo THEN users
    ELSE IF hi = lo + 1
         THEN Append(users, [id |-> lo, name |-> "User " \o IntToStr(lo)])
    ELSE LET mid == (lo + hi) \div 2
             left == get_all_users_loop(users, lo, mid)
         IN IF Len(left) >= 0 THEN get_all_users_loop(left, mid, hi) ELSE left

\* mutant: range(1, 10000)
get_all_users_users_from_one == get_all_users_loop(<<>>, 1, UserCount)

\* the list users at line 54: it depends on no argument and no field
get_all_users_users == get_all_users_loop(<<>>, 0, UserCount)

get_all_users(self) == Return(get_all_users_users)

(***************************************************************************)
(* class AuthenticationService                                             *)
(***************************************************************************)
AuthenticationService_init == [session_timeout |-> 3600]

\* mutant: or in place of and
authenticate_either(self, username, password) ==
    IF username = "admin" \/ password = "admin123"
    THEN Return(TRUE)
    ELSE Return(FALSE)

authenticate(self, username, password) ==
    IF username = "admin" /\ password = "admin123"
    THEN Return(TRUE)
    ELSE Return(FALSE)

generate_token(self, user_id, now) ==
    Return("token_" \o IntToStr(user_id) \o "_" \o TimestampToStr(now))

(***************************************************************************)
(* process_user_data                                                       *)
(***************************************************************************)
RECURSIVE process_user_data_loop(_, _, _)
process_user_data_loop(total, data, n) ==
    IF n > Len(data) THEN total
    ELSE process_user_data_loop(total + DictGet(data[n], "id", 0), data, n + 1)

\* mutant: count only the records that carry an id
process_user_data_skipping(data) ==
    Return([total |-> process_user_data_loop(0, data, 1),
            count |-> Cardinality({ n \in 1 .. Len(data) : "id" \in DictKeys(data[n]) })])

\* mutant: user["id"] in place of user.get("id", 0)
process_user_data_indexing(data) ==
    IF \E n \in 1 .. Len(data) : "id" \notin DictKeys(data[n])
    THEN Raise("KeyError", "id")
    ELSE Return([total |-> process_user_data_loop(0, data, 1), count |-> Len(data)])

process_user_data(data) ==
    Return([total |-> process_user_data_loop(0, data, 1), count |-> Len(data)])

(***************************************************************************)
(* The state machine.                                                      *)
(***************************************************************************)
NoCall == [op |-> "none", self |-> 0, args |-> <<>>, raised |-> "none", value |-> <<>>]
Unbound == [unbound |-> TRUE]
NoServices == [i \in {} |-> 0]

Call(op, self, args, outcome) ==
    [op |-> op, self |-> self, args |-> args,
     raised |-> outcome.raised, value |-> outcome.value]

\* whether the call (op, self, args) repeats the last call, and on which object
Repeats(op, self, args) ==
    IF last.op = op /\ last.args = args
    THEN (IF last.self = self THEN "same_object" ELSE "other_object")
    ELSE "no"

Init ==
    /\ user = Unbound
    /\ stdout = <<>>
    /\ last = NoCall
    /\ failedAttempts = 0
    /\ repeated = "no"
    /\ \/ /\ module_name = "__main__"
          /\ pc = "start"
          /\ userServices = NoServices
          /\ authServices = NoServices
       \/ /\ module_name = "UserService"
          /\ pc = "imported"
          /\ userServices = [i \in 1 .. 2 |-> UserService_init(DbConnections[i])]
          /\ authServices = [i \in 1 .. 1 |-> AuthenticationService_init]

\* a client's call returns or raises: nothing but the history changes
Invoke(op, self, args, outcome) ==
    /\ pc = "imported"
    /\ last' = Call(op, self, args, outcome)
    /\ repeated' = Repeats(op, self, args)
    /\ UNCHANGED <<module_name, pc, userServices, authServices, user, stdout>>

call_get_user_by_id ==
    \E i \in DOMAIN userServices, user_id \in UserIds :
        /\ Invoke("get_user_by_id", i, <<user_id>>,
                  get_user_by_id(userServices[i], user_id))
        /\ UNCHANGED failedAttempts

\* mutant: the created user is kept in the cache (self.users_cache[username] = user)
call_create_user_caching ==
    \E i \in DOMAIN userServices, username \in Usernames, email \in Emails,
       password \in Passwords, now \in Times :
        LET outcome == create_user(userServices[i], username, email, password, now)
        IN /\ pc = "imported"
           /\ last' = Call("create_user", i, <<username, email, password>>, outcome)
           /\ repeated' = Repeats("create_user", i, <<username, email, password>>)
           /\ userServices' =
                  IF outcome.raised = "none"
                  THEN [userServices EXCEPT
                            ![i].users_cache = DictSet(@, username, outcome.value)]
                  ELSE userServices
           /\ UNCHANGED <<module_name, pc, authServices, user, stdout, failedAttempts>>

call_create_user ==
    \E i \in DOMAIN userServices, username \in Usernames, email \in Emails,
       password \in Passwords, now \in Times :
        /\ Invoke("create_user", i, <<username, email, password>>,
                  create_user(userServices[i], username, email, password, now))
        /\ UNCHANGED failedAttempts

call_update_user_profile ==
    \E i \in DOMAIN userServices, user_id \in ProfileUserIds,
       profile_data \in Profiles :
        /\ Invoke("update_user_profile", i, <<user_id, profile_data>>,
                  update_user_profile(userServices[i], user_id, profile_data))
        /\ UNCHANGED failedAttempts

call_get_all_users ==
    \E i \in DOMAIN userServices :
        /\ Invoke("get_all_users", i, <<>>, get_all_users(userServices[i]))
        /\ UNCHANGED failedAttempts

call_authenticate ==
    \E i \in DOMAIN authServices, username \in LoginNames,
       password \in LoginPasswords :
        LET outcome == authenticate(authServices[i], username, password)
        IN /\ Invoke("authenticate", i, <<username, password>>, outcome)
           /\ failedAttempts' =
                  IF outcome.raised = "none" /\ outcome.value = FALSE
                     /\ failedAttempts < MaxFailed
                  THEN failedAttempts + 1
                  ELSE failedAttempts

call_generate_token ==
    \E i \in DOMAIN authServices, user_id \in UserIds, now \in Times :
        /\ Invoke("generate_token", i, <<user_id>>,
                  generate_token(authServices[i], user_id, now))
        /\ UNCHANGED failedAttempts

call_process_user_data ==
    \E data \in DataLists :
        /\ Invoke("process_user_data", 0, <<data>>, process_user_data(data))
        /\ UNCHANGED failedAttempts

\* service = UserService("postgresql://localhost/db")
main_construct ==
    /\ module_name = "__main__"
    /\ pc = "start"
    /\ userServices' = [i \in {1} |-> UserService_init("postgresql://localhost/db")]
    /\ pc' = "constructed"
    /\ UNCHANGED <<module_name, authServices, user, stdout, last,
                   failedAttempts, repeated>>

\* mutant: service.get_user_by_id(0)
main_call_other_id ==
    /\ module_name = "__main__"
    /\ pc = "constructed"
    /\ LET outcome == get_user_by_id(userServices[1], 0)
       IN /\ last' = Call("get_user_by_id", 1, <<0>>, outcome)
          /\ IF outcome.raised = "none"
             THEN user' = outcome.value /\ pc' = "called"
             ELSE user' = user /\ pc' = "failed"
    /\ UNCHANGED <<module_name, userServices, authServices, stdout,
                   failedAttempts, repeated>>

\* user = service.get_user_by_id(1)
main_call ==
    /\ module_name = "__main__"
    /\ pc = "constructed"
    /\ LET outcome == get_user_by_id(userServices[1], 1)
       IN /\ last' = Call("get_user_by_id", 1, <<1>>, outcome)
          /\ IF outcome.raised = "none"
             THEN user' = outcome.value /\ pc' = "called"
             ELSE user' = user /\ pc' = "failed"
    /\ UNCHANGED <<module_name, userServices, authServices, stdout,
                   failedAttempts, repeated>>

\* print(f"User: {user}")
main_print ==
    /\ module_name = "__main__"
    /\ pc = "called"
    /\ stdout' = Append(stdout, "User: " \o UserDictToStr(user))
    /\ pc' = "done"
    /\ UNCHANGED <<module_name, userServices, authServices, user, last,
                   failedAttempts, repeated>>

Next ==
    \/ call_get_user_by_id
    \/ call_create_user
    \/ call_update_user_profile
    \/ call_get_all_users
    \/ call_authenticate
    \/ call_generate_token
    \/ call_process_user_data
    \/ main_construct
    \/ main_call
    \/ main_print

Spec == Init /\ [][Next]_vars

(***************************************************************************)
(* The claims.                                                             *)
(***************************************************************************)

\* C1: create_user(u, e, p) raises ValueError if and only if len(p) < 4; when
\* len(p) >= 4 (4 included) it raises nothing and returns a record whose
\* password is p exactly, whose username is u and whose email is e.
C1_CreateUserRaisesIffShort ==
    last.op = "create_user" =>
        LET u == last.args[1]
            e == last.args[2]
            p == last.args[3]
        IN /\ last.raised \in {"none", "ValueError"}
           /\ (last.raised = "ValueError") <=> (Len(p) < 4)
           /\ (Len(p) >= 4) =>
                  /\ last.raised = "none"
                  /\ last.value.password = p
                  /\ last.value.username = u
                  /\ last.value.email = e

\* a create_user call with a password of exactly four characters has returned
C1_Witness ==
    /\ last.op = "create_user"
    /\ Len(last.args[3]) = 4
    /\ last.raised = "none"

\* C2: authenticate(username, password) returns True if and only if
\* username = "admin" and password = "admin123", and False for every other
\* pair, however many failed attempts came before the call.
C2_AuthenticateOnlyFixedPair ==
    last.op = "authenticate" =>
        /\ last.raised = "none"
        /\ last.value \in BOOLEAN
        /\ last.value <=> (last.args[1] = "admin" /\ last.args[2] = "admin123")

\* authenticate has returned True after MaxFailed failed attempts
C2_Witness ==
    /\ last.op = "authenticate"
    /\ failedAttempts = MaxFailed
    /\ last.raised = "none"
    /\ last.value = TRUE

\* C3: update_user_profile(id, m) returns a mapping equal to m: the same set
\* of keys, each bound to the value it has in m (the empty mapping included).
C3_UpdateProfileReturnsInput ==
    last.op = "update_user_profile" =>
        LET m == last.args[2]
            r == last.value
        IN /\ last.raised = "none"
           /\ DictKeys(r) = DictKeys(m)
           /\ Len(r) = Cardinality(DictKeys(m))
           /\ \A j \in 1 .. Len(m) :
                  \E k \in 1 .. Len(r) : r[k][1] = m[j][1] /\ r[k][2] = m[j][2]

\* update_user_profile has returned for a mapping of two keys
C3_Witness ==
    /\ last.op = "update_user_profile"
    /\ Len(last.args[2]) = 2
    /\ last.raised = "none"
    /\ Len(last.value) = 2

RECURSIVE C4_SumOfIds(_)
C4_SumOfIds(data) ==
    IF data = <<>> THEN 0
    ELSE LET here == { item \in { Head(data)[j] : j \in 1 .. Len(Head(data)) } :
                           item[1] = "id" }
         IN (IF here = {} THEN 0 ELSE (CHOOSE item \in here : TRUE)[2])
            + C4_SumOfIds(Tail(data))

\* C4: process_user_data(records) returns {total, count} where count is the
\* length of the sequence and total the sum of the 'id' fields, a record
\* without 'id' adding zero to total and one to count.
C4_ProcessSumsAndCounts ==
    last.op = "process_user_data" =>
        /\ last.raised = "none"
        /\ last.value.count = Len(last.args[1])
        /\ last.value.total = C4_SumOfIds(last.args[1])

\* process_user_data has returned for a sequence holding a record with an id
\* and a record without one
C4_Witness ==
    /\ last.op = "process_user_data"
    /\ last.raised = "none"
    /\ \E j, k \in 1 .. Len(last.args[1]) :
           /\ "id" \in DictKeys(last.args[1][j])
           /\ "id" \notin DictKeys(last.args[1][k])
    /\ last.value.total > 0

\* C5: get_all_users() returns a sequence of length 10,000 whose element at
\* position i (from 0) has id = i and name = "User i", for every i.
C5_GetAllUsersTenThousand ==
    last.op = "get_all_users" =>
        /\ last.raised = "none"
        /\ Len(last.value) = 10000
        /\ \A i \in 0 .. 9999 :
               /\ last.value[i + 1].id = i
               /\ last.value[i + 1].name = "User " \o ToString(i)

\* get_all_users has returned on the second UserService
C5_Witness ==
    /\ last.op = "get_all_users"
    /\ last.self = 2
    /\ last.raised = "none"
    /\ Len(last.value) > 0

\* C6: get_user_by_id(n) returns, for every integer n, a record (never an
\* absent value) whose id is n and whose name is "Test User".
C6_GetUserByIdEchoesId ==
    last.op = "get_user_by_id" =>
        /\ last.raised = "none"
        /\ DOMAIN last.value = {"id", "name"}
        /\ last.value.id = last.args[1]
        /\ last.value.name = "Test User"

\* get_user_by_id has returned for a negative identifier
C6_Witness ==
    /\ last.op = "get_user_by_id"
    /\ last.args[1] < 0
    /\ last.raised = "none"

\* C7: create_user is the only operation that can end in an error: every
\* other operation returns a value without raising.
C7_OnlyCreateUserRaises ==
    /\ last.raised # "none" => last.op = "create_user"
    /\ last.op \in {"get_user_by_id", "update_user_profile", "get_all_users",
                    "authenticate", "generate_token", "process_user_data"}
           => last.raised = "none"

\* process_user_data has returned for a sequence with a record without 'id'
C7_Witness ==
    /\ last.op = "process_user_data"
    /\ \E j \in 1 .. Len(last.args[1]) : "id" \notin DictKeys(last.args[1][j])
    /\ last.raised = "none"

C9_TokenPrefix(token) ==
    LET cut == CHOOSE k \in 0 .. Len(token) :
                   /\ k > 0 => SubSeq(token, k, k) = "_"
                   /\ \A j \in k + 1 .. Len(token) : SubSeq(token, j, j) # "_"
    IN SubSeq(token, 1, cut)

C9_SameButTimestamps(a, b) ==
    /\ a.raised = b.raised
    /\ IF a.raised # "none" THEN a.value = b.value
       ELSE IF a.op = "create_user"
            THEN [a.value EXCEPT !.created_at = 0] = [b.value EXCEPT !.created_at = 0]
       ELSE IF a.op = "generate_token"
            THEN C9_TokenPrefix(a.value) = C9_TokenPrefix(b.value)
       ELSE a.value = b.value

\* C9: two calls of an operation with equal arguments return equal results,
\* whatever calls preceded them and whatever object they run on; for
\* create_user and generate_token the results can differ only in the
\* timestamp part (created_at, the token's time suffix).
C9_EqualArgumentsEqualResults ==
    [][(last'.op = last.op /\ last'.args = last.args)
           => C9_SameButTimestamps(last, last')]_vars

\* create_user has returned a record right after the same call, made on the
\* other UserService
C9_Witness ==
    /\ repeated = "other_object"
    /\ last.op = "create_user"
    /\ last.raised = "none"

\* C10: run directly, the entry point constructs one UserService, calls
\* get_user_by_id(1) on it, then writes exactly one line showing the returned
\* record (id 1, name "Test User") and ends; the line is written only after
\* the call has returned.
C10_MainPrintsTheUser ==
    module_name = "__main__" =>
        /\ pc \in {"start", "constructed", "called", "done"}
        /\ DOMAIN userServices = (IF pc = "start" THEN {} ELSE {1})
        /\ DOMAIN authServices = {}
        /\ (pc \in {"called", "done"}) <=>
               (last.op = "get_user_by_id" /\ last.self = 1 /\ last.args = <<1>>)
        /\ pc \in {"start", "constructed"} => last.op = "none"
        /\ pc \in {"called", "done"} => user = [id |-> 1, name |-> "Test User"]
        /\ pc # "done" => stdout = <<>>
        /\ pc = "done" => stdout = <<"User: {'id': 1, 'name': 'Test User'}">>
        \* it ends, and only once the line is written
        /\ (pc = "done") <=> ~ENABLED Next

\* the entry point has ended, its line written
C10_Witness ==
    /\ module_name = "__main__"
    /\ pc = "done"
    /\ Len(stdout) = 1
====
